---- MODULE Spec2Model ----
(***************************************************************************)
(* Model of custom_components/airzonecloud/climate.py: the Home Assistant  *)
(* climate platform that wraps the AirzoneCloud vendor objects (one group  *)
(* and its devices) in two entity classes, AirzonecloudDevice and          *)
(* AirzonecloudGroup.                                                      *)
(*                                                                         *)
(* Conventions                                                             *)
(*  - Python None is the string "None" (NoneStr).                          *)
(*  - A temperature handed to set_temperature is an integer number of      *)
(*    fortieths of a degree (1/40 C).  Inputs are multiples of 5 (eighths  *)
(*    of a degree, which a binary float holds exactly, so that Python's    *)
(*    round(float(t), 1) is the exact round-half-to-even); a value with at *)
(*    most one decimal digit is a multiple of 4.                           *)
(*  - min/max temperature bounds are whole degrees Celsius.                *)
(*  - The vendor objects are the environment: a vendor call either applies *)
(*    its effect to the vendor object or raises and changes nothing.       *)
(***************************************************************************)
EXTENDS Integers, Sequences, FiniteSets, TLC

\* ---------------------------------------------------------------- bounds
\* set_temperature inputs are k/8 degrees for k in -MaxEighths..MaxEighths
MaxEighths == 6

\* ------------------------------------------------------------- constants
NoneStr == "None"

HVAC_MODE_OFF == "off"
HVAC_MODE_HEAT == "heat"
HVAC_MODE_COOL == "cool"
HVAC_MODE_DRY == "dry"
HVAC_MODE_FAN_ONLY == "fan_only"

AIRZONECLOUD_HVAC_MODES ==
    <<HVAC_MODE_OFF, HVAC_MODE_HEAT, HVAC_MODE_COOL, HVAC_MODE_DRY, HVAC_MODE_FAN_ONLY>>

TEMP_CELSIUS == "C"

\* the vendor object graph enumerated by setup_platform: one installation
\* holding one group that holds two devices
GroupId == "g1"
DeviceOrder == <<"d1", "d2">>
Devices == {DeviceOrder[i] : i \in 1..Len(DeviceOrder)}
Installations == << [groups |-> << [id |-> GroupId, devices |-> DeviceOrder] >>] >>

\* mode strings a vendor object may report (both API generations, "stop",
\* the empty string, None and an unknown string)
VendorModes ==
    { "cooling", "air-cooling", "radiant-cooling", "combined-cooling",
      "heating", "air-heating", "radiant-heating", "combined-heating",
      "emergency-heating", "ventilation", "dehumidify",
      "stop", "", NoneStr, "cool-air", "ventilate", "auto" }

\* modes the host may hand to set_hvac_mode: the five supported ones and one
\* the entity does not list
RequestedModes ==
    { AIRZONECLOUD_HVAC_MODES[i] : i \in 1..Len(AIRZONECLOUD_HVAC_MODES) } \cup {"heat_cool"}

\* temperature kwarg of set_temperature: <<>> is an absent/None temperature
TemperatureInputs == { <<5 * k>> : k \in (0 - MaxEighths)..MaxEighths } \cup { <<>> }

\* (min, max) temperatures of the vendor objects: each device holds its own
\* pair, the group holds either of them, so that in every state one device
\* agrees with its parent group and the other differs from it
BoundPairs == { <<15, 30>>, <<18, 28>> }
DeviceBounds == [d \in Devices |-> IF d = DeviceOrder[1] THEN <<15, 30>> ELSE <<18, 28>>]

\* configuration handed to setup_platform and the behaviour of the constructor
Usernames == { NoneStr, "user" }
Passwords == { NoneStr, "secret" }
CtorErrors == { NoneStr, "Login error" }

VARIABLES
    setup,          \* "pending" | "registered" | "aborted" | "raised": how
                    \* setup_platform ended
    config,         \* the configuration setup_platform was called with
    ctor,           \* outcome of each AirzoneCloud(username, password) construction
    errors,         \* messages passed to _LOGGER.error
    notifications,  \* persistent_notification.create service calls
    addCalls,       \* number of add_entities calls
    entities,       \* entities handed to add_entities
    vendor,         \* vendor objects: devOn, grpOn, mode, devBounds, grpBounds
                    \* (device.is_on, group.is_on, the mode the group and its
                    \* devices share, and the min/max temperatures of each)
    last,           \* the entity method invoked last and the state it saw
    calls,          \* vendor calls issued by that invocation, in order
    outcome,        \* "none" | "returned" | "raised": how that invocation ended
    failed          \* index in calls of the vendor call that raised, 0 if none did

vars == <<setup, config, ctor, errors, notifications, addCalls, entities,
          vendor, last, calls, outcome, failed>>

setupVars == <<setup, config, ctor, errors, notifications, addCalls, entities>>

\* ------------------------------------------------------ pure functions

\* a device mapping whose HEAT list lacks "emergency-heating"
DeviceHvacModeShortList(is_on, mode) ==
    IF is_on
    THEN IF mode \in {"cooling", "air-cooling", "radiant-cooling", "combined-cooling"}
         THEN HVAC_MODE_COOL
         ELSE IF mode \in {"heating", "air-heating", "radiant-heating", "combined-heating"}
         THEN HVAC_MODE_HEAT
         ELSE IF mode = "ventilation"
         THEN HVAC_MODE_FAN_ONLY
         ELSE IF mode = "dehumidify"
         THEN HVAC_MODE_DRY
         ELSE HVAC_MODE_OFF
    ELSE HVAC_MODE_OFF

\* AirzonecloudDevice.hvac_mode, from self._device.is_on and self._device.mode
DeviceHvacMode(is_on, mode) ==
    IF is_on
    THEN IF mode \in {"cooling", "air-cooling", "radiant-cooling", "combined-cooling"}
         THEN HVAC_MODE_COOL
         ELSE IF mode \in {"heating", "air-heating", "radiant-heating",
                           "combined-heating", "emergency-heating"}
         THEN HVAC_MODE_HEAT
         ELSE IF mode = "ventilation"
         THEN HVAC_MODE_FAN_ONLY
         ELSE IF mode = "dehumidify"
         THEN HVAC_MODE_DRY
         ELSE HVAC_MODE_OFF
    ELSE HVAC_MODE_OFF

\* a group mapping that does not look at is_on
GroupHvacModeIgnoringIsOn(is_on, mode) ==
    IF mode \in {"cooling", "air-cooling", "radiant-cooling", "combined-cooling"}
    THEN HVAC_MODE_COOL
    ELSE IF mode \in {"heating", "air-heating", "radiant-heating",
                      "combined-heating", "emergency-heating"}
    THEN HVAC_MODE_HEAT
    ELSE IF mode = "ventilation"
    THEN HVAC_MODE_FAN_ONLY
    ELSE IF mode = "dehumidify"
    THEN HVAC_MODE_DRY
    ELSE HVAC_MODE_OFF

\* AirzonecloudGroup.hvac_mode, from self._group.is_on and self._group.mode
GroupHvacMode(is_on, mode) ==
    IF is_on
    THEN IF mode \in {"cooling", "air-cooling", "radiant-cooling", "combined-cooling"}
         THEN HVAC_MODE_COOL
         ELSE IF mode \in {"heating", "air-heating", "radiant-heating",
                           "combined-heating", "emergency-heating"}
         THEN HVAC_MODE_HEAT
         ELSE IF mode = "ventilation"
         THEN HVAC_MODE_FAN_ONLY
         ELSE IF mode = "dehumidify"
         THEN HVAC_MODE_DRY
         ELSE HVAC_MODE_OFF
    ELSE HVAC_MODE_OFF

\* temperature_unit of both entities
temperature_unit == TEMP_CELSIUS

\* homeassistant.util.temperature.convert on whole degrees: the value itself
\* when the units agree, else the Celsius/Fahrenheit conversion
convert_temperature(value, from_unit, to_unit) ==
    IF from_unit = to_unit THEN value
    ELSE IF from_unit = TEMP_CELSIUS THEN (value * 9) \div 5 + 32
    ELSE ((value - 32) * 5) \div 9

\* a rounding that drops the digits after the first decimal
Round1Floor(x) == 4 * (x \div 4)

\* round(float(temperature), 1) on fortieths of a degree: the nearest tenth
\* (a multiple of 4), a tie going to the even tenth
Round1(x) ==
    LET q == x \div 4
        r == x % 4
        tenths == IF r < 2 THEN q
                  ELSE IF r > 2 THEN q + 1
                  ELSE IF q % 2 = 0 THEN q ELSE q + 1
    IN  4 * tenths

\* ---------------------------------------------------------- vendor calls

Call(target, id, method, arg, temp) ==
    [target |-> target, id |-> id, method |-> method, arg |-> arg, temp |-> temp]

\* self._device.group: the parent group of a device
GroupOf(d) == GroupId

\* a mode command addressed to the device itself
DeviceModeCommandToLeaf(d, hvac_mode) ==
    IF hvac_mode = HVAC_MODE_HEAT THEN << Call("device", d, "set_mode", "heating", 0) >>
    ELSE IF hvac_mode = HVAC_MODE_COOL THEN << Call("device", d, "set_mode", "cooling", 0) >>
    ELSE IF hvac_mode = HVAC_MODE_DRY THEN << Call("device", d, "set_mode", "dehumidify", 0) >>
    ELSE IF hvac_mode = HVAC_MODE_FAN_ONLY THEN << Call("device", d, "set_mode", "ventilation", 0) >>
    ELSE << >>

\* the mode command of AirzonecloudDevice.set_hvac_mode, sent to the parent
\* group (self._device.group.set_mode) for the four non-OFF modes
DeviceModeCommand(d, hvac_mode) ==
    IF hvac_mode = HVAC_MODE_HEAT THEN << Call("group", GroupOf(d), "set_mode", "heating", 0) >>
    ELSE IF hvac_mode = HVAC_MODE_COOL THEN << Call("group", GroupOf(d), "set_mode", "cooling", 0) >>
    ELSE IF hvac_mode = HVAC_MODE_DRY THEN << Call("group", GroupOf(d), "set_mode", "dehumidify", 0) >>
    ELSE IF hvac_mode = HVAC_MODE_FAN_ONLY THEN << Call("group", GroupOf(d), "set_mode", "ventilation", 0) >>
    ELSE << >>

\* AirzonecloudDevice.set_temperature: the vendor calls it makes, in order
Device_set_temperature(d, kwargs) ==
    IF kwargs # << >>
    THEN << Call("device", d, "set_temperature", "", Round1(kwargs[1])) >>
    ELSE << >>

\* a device set_hvac_mode that sends the mode command before it turns the
\* device on
Device_set_hvac_mode_TurnOnLast(d, hvac_mode, is_on) ==
    IF hvac_mode = HVAC_MODE_OFF
    THEN << Call("device", d, "turn_off", "", 0) >>
    ELSE DeviceModeCommand(d, hvac_mode)
         \o (IF ~is_on
             THEN << Call("device", d, "turn_on", "auto_refresh=False", 0) >>
             ELSE << >>)

\* a device set_hvac_mode that handles OFF the way the group entity does
Device_set_hvac_mode_StopGroup(d, hvac_mode, is_on) ==
    IF hvac_mode = HVAC_MODE_OFF
    THEN << Call("group", GroupId, "set_mode", "stop", 0) >>
    ELSE (IF ~is_on
          THEN << Call("device", d, "turn_on", "auto_refresh=False", 0) >>
          ELSE << >>)
         \o DeviceModeCommand(d, hvac_mode)

\* AirzonecloudDevice.set_hvac_mode: the vendor calls it makes, in order,
\* is_on being self._device.is_on as read at line 173
Device_set_hvac_mode(d, hvac_mode, is_on) ==
    IF hvac_mode = HVAC_MODE_OFF
    THEN << Call("device", d, "turn_off", "", 0) >>
    ELSE (IF ~is_on
          THEN << Call("device", d, "turn_on", "auto_refresh=False", 0) >>
          ELSE << >>)
         \o DeviceModeCommand(d, hvac_mode)

\* AirzonecloudDevice.turn_on / turn_off
Device_turn_on(d) == << Call("device", d, "turn_on", "", 0) >>

Device_turn_off(d) == << Call("device", d, "turn_off", "", 0) >>

\* AirzonecloudGroup.set_hvac_mode
Group_set_hvac_mode(hvac_mode) ==
    IF hvac_mode = HVAC_MODE_OFF
    THEN << Call("group", GroupId, "set_mode", "stop", 0) >>
    ELSE IF hvac_mode = HVAC_MODE_HEAT THEN << Call("group", GroupId, "set_mode", "heating", 0) >>
    ELSE IF hvac_mode = HVAC_MODE_COOL THEN << Call("group", GroupId, "set_mode", "cooling", 0) >>
    ELSE IF hvac_mode = HVAC_MODE_DRY THEN << Call("group", GroupId, "set_mode", "dehumidify", 0) >>
    ELSE IF hvac_mode = HVAC_MODE_FAN_ONLY THEN << Call("group", GroupId, "set_mode", "ventilation", 0) >>
    ELSE << >>

\* AirzonecloudGroup.turn_on / turn_off / update
Group_turn_on == << Call("group", GroupId, "turn_on", "", 0) >>

Group_turn_off == << Call("group", GroupId, "turn_off", "", 0) >>

Group_update == << Call("group", GroupId, "refresh_devices", "", 0) >>

\* entity methods that carry on with their remaining vendor calls after one
\* of them raised
IssuedAll(plan, failAt) == plan

\* No entity method catches an exception: when the failAt-th vendor call of
\* `plan` raises (0: none does), the calls issued are the plan up to and
\* including it, and the calls that took effect are those before it.
Issued(plan, failAt) ==
    IF failAt = 0 THEN plan ELSE SubSeq(plan, 1, failAt)

Applied(plan, failAt) ==
    IF failAt = 0 THEN plan ELSE SubSeq(plan, 1, failAt - 1)

\* what a vendor call that returns does to the vendor objects
Effect(v, c) ==
    IF c.target = "device" /\ c.method = "turn_on"
    THEN [v EXCEPT !.devOn[c.id] = TRUE]
    ELSE IF c.target = "device" /\ c.method = "turn_off"
    THEN [v EXCEPT !.devOn[c.id] = FALSE]
    ELSE IF c.target = "group" /\ c.method = "turn_on"
    THEN [v EXCEPT !.grpOn = TRUE]
    ELSE IF c.target = "group" /\ c.method = "turn_off"
    THEN [v EXCEPT !.grpOn = FALSE]
    ELSE IF c.target = "group" /\ c.method = "set_mode"
    THEN [v EXCEPT !.mode = c.arg]
    ELSE v

RECURSIVE Effects(_, _)
Effects(v, cs) ==
    IF cs = << >> THEN v ELSE Effects(Effect(v, Head(cs)), Tail(cs))

\* ---------------------------------------------------------------- setup

\* the entity list built by the loops of setup_platform: each group, then
\* the devices of that group
RECURSIVE DeviceEntities(_)
DeviceEntities(ds) ==
    IF ds = << >> THEN << >>
    ELSE << [kind |-> "device", id |-> Head(ds)] >> \o DeviceEntities(Tail(ds))

RECURSIVE GroupEntities(_)
GroupEntities(gs) ==
    IF gs = << >> THEN << >>
    ELSE << [kind |-> "group", id |-> Head(gs).id] >>
         \o DeviceEntities(Head(gs).devices)
         \o GroupEntities(Tail(gs))

RECURSIVE InstallationEntities(_)
InstallationEntities(is) ==
    IF is = << >> THEN << >>
    ELSE GroupEntities(Head(is).groups) \o InstallationEntities(Tail(is))

\* a setup_platform without the return of line 52: after the notification it
\* goes on to api.installations with api = None, which raises
setup_platform_NoReturn(username, password, ctorErr) ==
    IF username = NoneStr \/ password = NoneStr
    THEN [setup |-> "aborted", ctor |-> << >>,
          errors |-> << "missing username or password config" >>,
          notifications |-> << >>, addCalls |-> 0, entities |-> << >>]
    ELSE IF ctorErr # NoneStr
    THEN [setup |-> "raised", ctor |-> << ctorErr >>,
          errors |-> << ctorErr >>,
          notifications |-> << [domain |-> "persistent_notification",
                                service |-> "create",
                                title |-> "Airzonecloud error",
                                message |-> ctorErr] >>,
          addCalls |-> 0, entities |-> << >>]
    ELSE [setup |-> "registered", ctor |-> << NoneStr >>,
          errors |-> << >>, notifications |-> << >>,
          addCalls |-> 1, entities |-> InstallationEntities(Installations)]

\* a setup_platform whose configuration check looks at the username only
setup_platform_UsernameOnly(username, password, ctorErr) ==
    IF username = NoneStr
    THEN [setup |-> "aborted", ctor |-> << >>,
          errors |-> << "missing username or password config" >>,
          notifications |-> << >>, addCalls |-> 0, entities |-> << >>]
    ELSE IF ctorErr # NoneStr
    THEN [setup |-> "aborted", ctor |-> << ctorErr >>,
          errors |-> << ctorErr >>,
          notifications |-> << [domain |-> "persistent_notification",
                                service |-> "create",
                                title |-> "Airzonecloud error",
                                message |-> ctorErr] >>,
          addCalls |-> 0, entities |-> << >>]
    ELSE [setup |-> "registered", ctor |-> << NoneStr >>,
          errors |-> << >>, notifications |-> << >>,
          addCalls |-> 1, entities |-> InstallationEntities(Installations)]

\* setup_platform(hass, config, add_entities): what it has done when it
\* returns, ctorErr being the exception the constructor raises (None: none).
\* setup is "registered" when it returned after add_entities, "aborted" when
\* it returned without calling it ("raised": an exception left it).
setup_platform(username, password, ctorErr) ==
    IF username = NoneStr \/ password = NoneStr
    THEN [setup |-> "aborted", ctor |-> << >>,
          errors |-> << "missing username or password config" >>,
          notifications |-> << >>, addCalls |-> 0, entities |-> << >>]
    ELSE IF ctorErr # NoneStr
    THEN [setup |-> "aborted", ctor |-> << ctorErr >>,
          errors |-> << ctorErr >>,
          notifications |-> << [domain |-> "persistent_notification",
                                service |-> "create",
                                title |-> "Airzonecloud error",
                                message |-> ctorErr] >>,
          addCalls |-> 0, entities |-> << >>]
    ELSE [setup |-> "registered", ctor |-> << NoneStr >>,
          errors |-> << >>, notifications |-> << >>,
          addCalls |-> 1, entities |-> InstallationEntities(Installations)]

\* ---------------------------------------------------------------- state

\* what the vendor objects may hold after the constructor or a refresh
VendorStates ==
    [devOn : [Devices -> BOOLEAN], grpOn : BOOLEAN, mode : VendorModes,
     devBounds : {DeviceBounds}, grpBounds : BoundPairs]

NoVendor ==
    [devOn |-> [d \in Devices |-> FALSE], grpOn |-> FALSE, mode |-> NoneStr,
     devBounds |-> DeviceBounds, grpBounds |-> <<15, 30>>]

NoInvocation ==
    [entity |-> "none", id |-> "", op |-> "", hvac_mode |-> "", kwargs |-> << >>,
     wasOn |-> FALSE, prevMode |-> NoneStr]

Init ==
    /\ setup = "pending"
    /\ config \in [username : Usernames, password : Passwords]
    /\ ctor = << >>
    /\ errors = << >>
    /\ notifications = << >>
    /\ addCalls = 0
    /\ entities = << >>
    /\ vendor = NoVendor
    /\ last = NoInvocation
    /\ calls = << >>
    /\ outcome = "none"
    /\ failed = 0

\* the host calls setup_platform once; on success the constructor has loaded
\* the vendor objects
SetupPlatform ==
    /\ setup = "pending"
    /\ \E ctorErr \in CtorErrors, v \in VendorStates :
          LET r == setup_platform(config.username, config.password, ctorErr)
          IN  /\ setup' = r.setup
              /\ ctor' = r.ctor
              /\ errors' = r.errors
              /\ notifications' = r.notifications
              /\ addCalls' = r.addCalls
              /\ entities' = r.entities
              /\ vendor' = IF r.setup = "registered" THEN v ELSE vendor
    /\ UNCHANGED <<config, last, calls, outcome, failed>>

\* properties read from the wrapped vendor objects
Device_is_on(d) == vendor.devOn[d]

Device_mode(d) == vendor.mode

Group_is_on == vendor.grpOn

Group_mode == vendor.mode

\* AirzonecloudDevice.hvac_mode / AirzonecloudGroup.hvac_mode in the current state
Device_hvac_mode(d) == DeviceHvacMode(Device_is_on(d), Device_mode(d))

Group_hvac_mode == GroupHvacMode(Group_is_on, Group_mode)

\* a min_temp read from the parent group
Device_min_temp_FromGroup(d) ==
    convert_temperature(vendor.grpBounds[1], TEMP_CELSIUS, temperature_unit)

\* AirzonecloudDevice.min_temp / max_temp
Device_min_temp(d) ==
    convert_temperature(vendor.devBounds[d][1], TEMP_CELSIUS, temperature_unit)

Device_max_temp(d) ==
    convert_temperature(vendor.devBounds[d][2], TEMP_CELSIUS, temperature_unit)

\* one invocation of an entity method: the vendor calls of `plan` are issued
\* in order until one raises
Invoke(kind, id, op, hvac_mode, kwargs, wasOn, plan, failAt) ==
    /\ last' = [entity |-> kind, id |-> id, op |-> op, hvac_mode |-> hvac_mode,
                kwargs |-> kwargs, wasOn |-> wasOn, prevMode |-> vendor.mode]
    /\ calls' = Issued(plan, failAt)
    /\ outcome' = IF failAt = 0 THEN "returned" ELSE "raised"
    /\ failed' = failAt
    /\ vendor' = Effects(vendor, Applied(plan, failAt))
    /\ UNCHANGED setupVars

Registered(kind, id) ==
    /\ setup = "registered"
    /\ \E i \in 1..Len(entities) : entities[i] = [kind |-> kind, id |-> id]

DeviceSetTemperature ==
    \E d \in Devices, kwargs \in TemperatureInputs :
        /\ Registered("device", d)
        /\ LET plan == Device_set_temperature(d, kwargs)
           IN  \E failAt \in 0..Len(plan) :
                   Invoke("device", d, "set_temperature", "", kwargs,
                          Device_is_on(d), plan, failAt)

DeviceSetHvacMode ==
    \E d \in Devices, hvac_mode \in RequestedModes :
        /\ Registered("device", d)
        /\ LET plan == Device_set_hvac_mode(d, hvac_mode, Device_is_on(d))
           IN  \E failAt \in 0..Len(plan) :
                   Invoke("device", d, "set_hvac_mode", hvac_mode, << >>,
                          Device_is_on(d), plan, failAt)

DeviceTurnOn ==
    \E d \in Devices :
        /\ Registered("device", d)
        /\ \E failAt \in 0..Len(Device_turn_on(d)) :
               Invoke("device", d, "turn_on", "", << >>,
                      Device_is_on(d), Device_turn_on(d), failAt)

DeviceTurnOff ==
    \E d \in Devices :
        /\ Registered("device", d)
        /\ \E failAt \in 0..Len(Device_turn_off(d)) :
               Invoke("device", d, "turn_off", "", << >>,
                      Device_is_on(d), Device_turn_off(d), failAt)

GroupSetHvacMode ==
    \E hvac_mode \in RequestedModes :
        /\ Registered("group", GroupId)
        /\ LET plan == Group_set_hvac_mode(hvac_mode)
           IN  \E failAt \in 0..Len(plan) :
                   Invoke("group", GroupId, "set_hvac_mode", hvac_mode, << >>,
                          Group_is_on, plan, failAt)

GroupTurnOn ==
    /\ Registered("group", GroupId)
    /\ \E failAt \in 0..Len(Group_turn_on) :
           Invoke("group", GroupId, "turn_on", "", << >>,
                  Group_is_on, Group_turn_on, failAt)

GroupTurnOff ==
    /\ Registered("group", GroupId)
    /\ \E failAt \in 0..Len(Group_turn_off) :
           Invoke("group", GroupId, "turn_off", "", << >>,
                  Group_is_on, Group_turn_off, failAt)

\* AirzonecloudGroup.update: refresh_devices re-reads the on/off flags and the
\* mode from the cloud, which may hold anything; when it raises nothing changes
GroupUpdate ==
    /\ Registered("group", GroupId)
    /\ \E failAt \in 0..Len(Group_update) :
          /\ last' = [entity |-> "group", id |-> GroupId, op |-> "update",
                      hvac_mode |-> "", kwargs |-> << >>,
                      wasOn |-> Group_is_on, prevMode |-> vendor.mode]
          /\ calls' = Issued(Group_update, failAt)
          /\ outcome' = IF failAt = 0 THEN "returned" ELSE "raised"
          /\ failed' = failAt
          /\ IF failAt = 0
             THEN \E v \in VendorStates :
                      /\ v.devBounds = vendor.devBounds
                      /\ v.grpBounds = vendor.grpBounds
                      /\ vendor' = v
             ELSE vendor' = vendor
    /\ UNCHANGED setupVars

Next ==
    \/ SetupPlatform
    \/ DeviceSetTemperature
    \/ DeviceSetHvacMode
    \/ DeviceTurnOn
    \/ DeviceTurnOff
    \/ GroupSetHvacMode
    \/ GroupTurnOn
    \/ GroupTurnOff
    \/ GroupUpdate

Spec == Init /\ [][Next]_vars

\* =============================================================== claims

\* the device/group mapping table as the specification states it
TableMode(mode) ==
    CASE mode \in {"cooling", "air-cooling", "radiant-cooling", "combined-cooling"}
             -> HVAC_MODE_COOL
      [] mode \in {"heating", "air-heating", "radiant-heating", "combined-heating",
                   "emergency-heating"}
             -> HVAC_MODE_HEAT
      [] mode = "ventilation" -> HVAC_MODE_FAN_ONLY
      [] mode = "dehumidify" -> HVAC_MODE_DRY
      [] OTHER -> HVAC_MODE_OFF

IsSetHvacMode(kind) ==
    /\ last.entity = kind
    /\ last.op = "set_hvac_mode"

NonOffModes == {HVAC_MODE_HEAT, HVAC_MODE_COOL, HVAC_MODE_DRY, HVAC_MODE_FAN_ONLY}

\* positions in calls of the calls of one method
CallsOf(method) == { i \in 1..Len(calls) : calls[i].method = method }

\* C1: for the device entity and for the group entity, when the wrapped
\* vendor object reports is_on, hvac_mode is the standard mode the mapping
\* table gives for the stored mode string, and OFF for every string the table
\* does not list ("stop", "", None, first-generation strings).
C1_ModeTable ==
    setup = "registered" =>
        /\ \A d \in Devices :
               Device_is_on(d) => Device_hvac_mode(d) = TableMode(Device_mode(d))
        /\ Group_is_on => Group_hvac_mode = TableMode(Group_mode)

C1_Witness ==
    /\ setup = "registered"
    /\ Group_is_on
    /\ Device_is_on("d1")
    /\ vendor.mode = "emergency-heating"
    /\ Device_hvac_mode("d1") = HVAC_MODE_HEAT
    /\ Group_hvac_mode = HVAC_MODE_HEAT

\* C2: in every reachable state, an entity whose vendor object reports
\* is_on = false has hvac_mode OFF, whatever mode string is stored.
C2_OffWhenNotOn ==
    setup = "registered" =>
        /\ \A d \in Devices : ~Device_is_on(d) => Device_hvac_mode(d) = HVAC_MODE_OFF
        /\ ~Group_is_on => Group_hvac_mode = HVAC_MODE_OFF

C2_Witness ==
    /\ last.op = "turn_off"
    /\ last.entity = "group"
    /\ outcome = "returned"
    /\ ~Group_is_on
    /\ ~Device_is_on("d2")
    /\ vendor.mode = "heating"
    /\ Group_hvac_mode = HVAC_MODE_OFF
    /\ Device_hvac_mode("d2") = HVAC_MODE_OFF

\* C3: set_hvac_mode(OFF) issues exactly one vendor command: on a device
\* entity the turn_off of that device, on a group entity the stop command of
\* the group; no set_temperature, turn_on or other mode command, whether the
\* unit was on or off.
C3_OffIsOneCommand ==
    /\ (IsSetHvacMode("device") /\ last.hvac_mode = HVAC_MODE_OFF) =>
           calls = << Call("device", last.id, "turn_off", "", 0) >>
    /\ (IsSetHvacMode("group") /\ last.hvac_mode = HVAC_MODE_OFF) =>
           calls = << Call("group", GroupId, "set_mode", "stop", 0) >>

C3_Witness ==
    /\ IsSetHvacMode("device")
    /\ last.hvac_mode = HVAC_MODE_OFF
    /\ last.wasOn
    /\ outcome = "returned"
    /\ calls = << Call("device", last.id, "turn_off", "", 0) >>
    /\ ~Device_is_on(last.id)

\* C4: set_hvac_mode(m) on a device entity, m one of HEAT, COOL, DRY,
\* FAN_ONLY: if the device reported off, a turn_on of that device is issued
\* and it comes before the mode command; if it reported on, no turn_on is
\* issued; a call that returns has issued exactly one mode command, as its
\* last vendor call.
C4_TurnOnFirst ==
    (IsSetHvacMode("device") /\ last.hvac_mode \in NonOffModes) =>
        /\ ~last.wasOn =>
               /\ Len(calls) >= 1
               /\ calls[1] = Call("device", last.id, "turn_on", "auto_refresh=False", 0)
               /\ CallsOf("turn_on") = {1}
               /\ \A i \in CallsOf("set_mode") : i > 1
        /\ last.wasOn => CallsOf("turn_on") = {}
        /\ outcome = "returned" =>
               /\ Cardinality(CallsOf("set_mode")) = 1
               /\ calls[Len(calls)].method = "set_mode"
               /\ Len(calls) = IF last.wasOn THEN 1 ELSE 2

C4_Witness ==
    /\ IsSetHvacMode("device")
    /\ last.hvac_mode = HVAC_MODE_HEAT
    /\ ~last.wasOn
    /\ outcome = "returned"
    /\ calls = << Call("device", last.id, "turn_on", "auto_refresh=False", 0),
                  Call("group", GroupId, "set_mode", "heating", 0) >>

\* C5 as stated: whenever a device and its parent group hold different
\* bounds, the device entity's min_temp and max_temp are the group's.
C5_BoundsFromParent ==
    setup = "registered" =>
        \A d \in Devices :
            vendor.devBounds[d] # vendor.grpBounds =>
                /\ Device_min_temp(d) = vendor.grpBounds[1]
                /\ Device_max_temp(d) = vendor.grpBounds[2]

\* C5 amended: the device entity's min_temp and max_temp are always the
\* min_temperature and max_temperature of the device's own vendor object,
\* also when the parent group holds different bounds.
C5_BoundsFromLeaf ==
    setup = "registered" =>
        \A d \in Devices :
            /\ Device_min_temp(d) = vendor.devBounds[d][1]
            /\ Device_max_temp(d) = vendor.devBounds[d][2]

C5_Witness ==
    /\ setup = "registered"
    /\ vendor.devBounds["d2"] = <<18, 28>>
    /\ vendor.grpBounds = <<15, 30>>
    /\ Device_min_temp("d2") = 18
    /\ Device_max_temp("d2") = 28

Abs(n) == IF n < 0 THEN 0 - n ELSE n

\* C6: set_temperature on a device entity with a temperature forwards exactly
\* one call, set_temperature on that device, whose argument is the requested
\* value rounded to one decimal place (a whole number of tenths, at most half
\* a tenth away from the request); nothing goes to the group and no on/off or
\* mode command is issued.
C6_RoundedForward ==
    (last.entity = "device" /\ last.op = "set_temperature" /\ last.kwargs # << >>) =>
        /\ Len(calls) = 1
        /\ calls[1].target = "device"
        /\ calls[1].id = last.id
        /\ calls[1].method = "set_temperature"
        /\ calls[1].temp % 4 = 0
        /\ Abs(calls[1].temp - last.kwargs[1]) <= 2

C6_Witness ==
    /\ last.entity = "device"
    /\ last.op = "set_temperature"
    /\ last.kwargs = << 30 >>
    /\ outcome = "returned"
    /\ calls = << Call("device", last.id, "set_temperature", "", 32) >>

CtorRaised == Len(ctor) = 1 /\ ctor[1] # NoneStr

MissingCredentials == config.username = NoneStr \/ config.password = NoneStr

\* C7: when the construction of the vendor client raises during
\* setup_platform, the exception does not propagate: setup returns, the error
\* is logged, exactly one persistent notification carrying the error message
\* is created, and add_entities is never called.
C7_CtorFailureAborts ==
    CtorRaised =>
        /\ setup = "aborted"
        /\ errors = << ctor[1] >>
        /\ notifications = << [domain |-> "persistent_notification",
                               service |-> "create",
                               title |-> "Airzonecloud error",
                               message |-> ctor[1]] >>
        /\ addCalls = 0
        /\ entities = << >>

C7_Witness ==
    /\ ctor = << "Login error" >>
    /\ setup = "aborted"
    /\ Len(notifications) = 1
    /\ notifications[1].message = "Login error"
    /\ addCalls = 0

\* C8 as stated: whenever setup_platform returned without calling
\* add_entities, the constructor was invoked and raised and a notification was
\* created; whenever the constructor did not raise, setup reached add_entities.
C8_OnlyCtorFailure ==
    /\ setup = "aborted" => (CtorRaised /\ Len(notifications) = 1)
    /\ (setup # "pending" /\ ~CtorRaised) => addCalls = 1

\* C8 amended: setup_platform returns without calling add_entities in two
\* cases: the username or the password is missing from the configuration
\* (an error is logged, the constructor is never invoked, no notification is
\* created), or the constructor was invoked and raised (a notification is
\* created).  With both credentials present and a constructor that does not
\* raise, setup reaches add_entities.
C8_TwoAbortPaths ==
    /\ setup = "aborted" =>
           \/ /\ MissingCredentials
              /\ ctor = << >>
              /\ notifications = << >>
              /\ errors = << "missing username or password config" >>
           \/ /\ ~MissingCredentials
              /\ CtorRaised
              /\ Len(notifications) = 1
    /\ (setup # "pending" /\ ~MissingCredentials /\ ~CtorRaised) =>
           /\ setup = "registered"
           /\ addCalls = 1
           /\ ctor = << NoneStr >>
    /\ (setup # "pending" /\ MissingCredentials) => setup = "aborted"

C8_Witness ==
    /\ setup = "aborted"
    /\ config.username = "user"
    /\ config.password = NoneStr
    /\ ctor = << >>
    /\ notifications = << >>
    /\ Len(errors) = 1
    /\ addCalls = 0

\* C9: set_hvac_mode(m), m one of HEAT, COOL, DRY, FAN_ONLY, on a device or a
\* group entity sends its mode command to the group (for a device its parent
\* group, never the device), with a vendor string the forward mapping maps
\* back to m; a call that returns has sent exactly one.  Once the vendor has
\* applied the commands, the device entity's hvac_mode is m.
C9_ReverseMapping ==
    (last.op = "set_hvac_mode" /\ last.hvac_mode \in NonOffModes) =>
        /\ \A i \in CallsOf("set_mode") :
               /\ calls[i].target = "group"
               /\ calls[i].id = GroupId
               /\ DeviceHvacMode(TRUE, calls[i].arg) = last.hvac_mode
               /\ GroupHvacMode(TRUE, calls[i].arg) = last.hvac_mode
        /\ Cardinality(CallsOf("set_mode")) <= 1
        /\ outcome = "returned" =>
               /\ Cardinality(CallsOf("set_mode")) = 1
               /\ last.entity = "device" => Device_hvac_mode(last.id) = last.hvac_mode

C9_Witness ==
    /\ IsSetHvacMode("device")
    /\ last.hvac_mode = HVAC_MODE_COOL
    /\ ~last.wasOn
    /\ last.prevMode = "heating"
    /\ outcome = "returned"
    /\ calls[2] = Call("group", GroupId, "set_mode", "cooling", 0)
    /\ Device_hvac_mode(last.id) = HVAC_MODE_COOL

\* C10: a vendor call that raises during command dispatch or refresh is
\* neither caught nor retried: the method ends by raising, no vendor call is
\* issued twice and none after the failing one.  set_hvac_mode(m), m not OFF,
\* on an off device: when turn_on raises no mode command is sent; when the
\* mode command raises the turn_on already issued is not undone (the device
\* is on, the mode is the previous one).
C10_FailurePropagates ==
    /\ failed > 0 => (outcome = "raised" /\ Len(calls) = failed)
    /\ outcome = "raised" => failed > 0
    /\ \A i, j \in 1..Len(calls) : calls[i] = calls[j] => i = j
    /\ (IsSetHvacMode("device") /\ last.hvac_mode \in NonOffModes /\ ~last.wasOn) =>
           /\ failed = 1 =>
                  /\ calls = << Call("device", last.id, "turn_on", "auto_refresh=False", 0) >>
                  /\ CallsOf("set_mode") = {}
                  /\ vendor.mode = last.prevMode
           /\ failed = 2 =>
                  /\ Len(calls) = 2
                  /\ calls[1] = Call("device", last.id, "turn_on", "auto_refresh=False", 0)
                  /\ calls[2].method = "set_mode"
                  /\ CallsOf("turn_off") = {}
                  /\ Device_is_on(last.id)
                  /\ vendor.mode = last.prevMode

C10_Witness ==
    /\ IsSetHvacMode("device")
    /\ last.hvac_mode = HVAC_MODE_HEAT
    /\ ~last.wasOn
    /\ last.prevMode = "cooling"
    /\ failed = 2
    /\ outcome = "raised"
    /\ Device_is_on(last.id)
    /\ vendor.mode = "cooling"
    /\ Device_hvac_mode(last.id) = HVAC_MODE_COOL

====
